---- MODULE Spec2Model ----
(***************************************************************************)
(* State-machine model of the study-session composable                     *)
(* (frontend/composables/useStudySession.ts), together with the auth       *)
(* state it reads and clears (frontend/composables/useAuth.ts).            *)
(*                                                                         *)
(* One step of the model is one turn of the browser's event loop: a user   *)
(* event, a timer callback or the completion of a network request,         *)
(* followed by the flush of the Vue watchers the turn has triggered.       *)
(* The card list is modelled by its length; a card is identified by its    *)
(* position in the list, and every fetch result is a list of new objects.  *)
(***************************************************************************)
EXTENDS Integers, Sequences, FiniteSets, TLC

VARIABLES
    user,                   \* useAuth: user profile is non-null
    tokenCookie,            \* useAuth: token cookie is non-null
    mode,                   \* options.mode: "due" | "new" | "all"
    cards,                  \* cards.value: Null, or the length of the list
    fetchPending,           \* a GET /flashcards of useFetch is in flight
    cardIndex,
    cardsReviewedInBatch,
    cardsReviewedInSession,
    currentBatchSize,
    sessionFinished,
    sessionEndEmitted,
    sessionEndCount,        \* number of session_end events passed to track
    sessionEndReason,       \* reason of the first session_end event tracked
    revealed,
    buttonsEnabled,
    buttonsTimer,           \* TimerNull, TimerDone, or ms left of the timer
    leakedTimers,           \* ms left of pending timers no handle refers to
    sinceReveal,            \* ms since the last transition to revealed
    isSubmitting,
    inPost,                 \* review POSTs in flight
    inRefresh,              \* recordResponse calls awaiting refresh()
    inLogout,               \* recordResponse calls awaiting logout()
    page,                   \* "mounted", "leaving" (mounted, navigateTo('/')
                            \* has been called) or "gone" (unmounted)
    listArrived,            \* a card list has arrived since the session
                            \* started or the mode last changed
    unauthorized,           \* a review POST has failed with status 401
    postStale,              \* a new batch has begun (mode switch, keepGoing)
                            \* since the review POST in flight was issued
    reviewCap,              \* the user stops reviewing after so many cards
    \* useAnalytics
    buffer,                 \* the event buffer, a sequence of event ids
    flights,                \* the batches of the flush POSTs in flight
    tracked,                \* number of events passed to track so far
    delivered,              \* events of the flush POSTs that succeeded
    beaconed,               \* events handed to navigator.sendBeacon
    flushed,                \* events that a flush or flushBeacon has taken
                            \* from the buffer at least once
    \* useAuth and plugins/auth.ts
    authReady,
    rehydratePc,            \* the plugin: "start", "fetching" or "done"
    loginPc,                \* login: "idle", "token" or "me" (awaited call)
    signupPc,               \* signup: "idle", "token" or "me"
    logoutPc,               \* logout: "idle" or "post"
    lastOutcome,            \* the auth call that settled last: which call,
                            \* its last backend response, how it ended
    \* pages/quiz/[slug].vue and pages/lesson/[slug].vue
    quizPage,               \* the refs of the quiz page, as a record
    lessonPage              \* the refs of the lesson page, as a record

vars == << user, tokenCookie, mode, cards, fetchPending, cardIndex,
           cardsReviewedInBatch, cardsReviewedInSession, currentBatchSize,
           sessionFinished, sessionEndEmitted, sessionEndCount,
           revealed, buttonsEnabled, buttonsTimer,
           leakedTimers, sinceReveal, isSubmitting, inPost, inRefresh,
           inLogout, page, listArrived, unauthorized, reviewCap,
           sessionEndReason, postStale,
           buffer, flights, tracked, delivered, beaconed, flushed,
           authReady, rehydratePc, loginPc, signupPc, logoutPc,
           lastOutcome, quizPage, lessonPage >>

\* The state of the study session alone (user and tokenCookie are shared
\* with useAuth).
sessionVars ==
    << mode, cards, fetchPending, cardIndex,
       cardsReviewedInBatch, cardsReviewedInSession, currentBatchSize,
       sessionFinished, sessionEndEmitted, sessionEndCount,
       revealed, buttonsEnabled, buttonsTimer,
       leakedTimers, sinceReveal, isSubmitting, inPost, inRefresh,
       inLogout, page, listArrived, unauthorized, reviewCap,
       sessionEndReason, postStale >>

analyticsVars ==
    << buffer, flights, tracked, delivered, beaconed, flushed >>

pageVars == << quizPage, lessonPage >>

authVars ==
    << authReady, rehydratePc, loginPc, signupPc, logoutPc, lastOutcome >>

----------------------------------------------------------------------------
(* Program constants *)

BATCH_SIZE == 10
ButtonDelayMs == 400

(* Bounds of the model *)

MaxFew == 2             \* short lists have 0 .. MaxFew cards
MaxOver == 1            \* long lists have BATCH_SIZE .. BATCH_SIZE + MaxOver
MaxReviews == 3         \* cap on cardsReviewedInSession
MaxInFlight == 2        \* cap on simultaneous review POSTs
MaxLeaked == 1          \* pending timers without a handle that are tracked
MaxTracked == 2         \* sessionEndCount saturates here ("2 or more")
TickMs == 200           \* granularity of the clock
MaxEvents == 4          \* cap on the events passed to track
MaxFlights == 2         \* cap on simultaneous flush POSTs
MaxQuestions == 2       \* a quiz has 0 .. MaxQuestions questions
MaxOption == 1          \* a question has the options 0 .. MaxOption
MaxPosts == 3           \* cap on the completion POSTs of a lesson page

Modes == {"due", "new", "all"}
Null == -1              \* cards.value === null (no data / failed fetch)
TimerNull == -1         \* buttonsTimer === null
TimerDone == -2        \* buttonsTimer holds the handle of a timer that ran
                        \* or was cleared
NoCard == -1

\* The lengths of the card lists the backend returns: shorter than a
\* batch, a batch exactly, and longer than a batch.
CardCounts == (0 .. MaxFew) \cup (BATCH_SIZE .. BATCH_SIZE + MaxOver)

Elems(q) == { q[i] : i \in 1 .. Len(q) }

RemoveAt(q, i) == SubSeq(q, 1, i - 1) \o SubSeq(q, i + 1, Len(q))

Min(a, b) == IF a < b THEN a ELSE b
Max(a, b) == IF a > b THEN a ELSE b

----------------------------------------------------------------------------
(* The reactive state as one record, so that the handlers compose. *)

State ==
    [ user |-> user, tokenCookie |-> tokenCookie, mode |-> mode,
      cards |-> cards, fetchPending |-> fetchPending,
      cardIndex |-> cardIndex,
      cardsReviewedInBatch |-> cardsReviewedInBatch,
      cardsReviewedInSession |-> cardsReviewedInSession,
      currentBatchSize |-> currentBatchSize,
      sessionFinished |-> sessionFinished,
      sessionEndEmitted |-> sessionEndEmitted,
      sessionEndCount |-> sessionEndCount,
      revealed |-> revealed, buttonsEnabled |-> buttonsEnabled,
      buttonsTimer |-> buttonsTimer, leakedTimers |-> leakedTimers,
      sinceReveal |-> sinceReveal, isSubmitting |-> isSubmitting,
      inPost |-> inPost, inRefresh |-> inRefresh, inLogout |-> inLogout,
      page |-> page, listArrived |-> listArrived,
      unauthorized |-> unauthorized, reviewCap |-> reviewCap,
      sessionEndReason |-> sessionEndReason, postStale |-> postStale ]

SetSession(s) ==
    /\ user' = s.user
    /\ tokenCookie' = s.tokenCookie
    /\ mode' = s.mode
    /\ cards' = s.cards
    /\ fetchPending' = s.fetchPending
    /\ cardIndex' = s.cardIndex
    /\ cardsReviewedInBatch' = s.cardsReviewedInBatch
    /\ cardsReviewedInSession' = s.cardsReviewedInSession
    /\ currentBatchSize' = s.currentBatchSize
    /\ sessionFinished' = s.sessionFinished
    /\ sessionEndEmitted' = s.sessionEndEmitted
    /\ sessionEndCount' = s.sessionEndCount
    /\ revealed' = s.revealed
    /\ buttonsEnabled' = s.buttonsEnabled
    /\ buttonsTimer' = s.buttonsTimer
    /\ leakedTimers' = s.leakedTimers
    /\ sinceReveal' = IF s.revealed THEN s.sinceReveal ELSE 0
    /\ isSubmitting' = s.isSubmitting
    /\ inPost' = s.inPost
    /\ inRefresh' = s.inRefresh
    /\ inLogout' = s.inLogout
    /\ page' = s.page
    /\ listArrived' = s.listArrived
    /\ unauthorized' = s.unauthorized
    /\ reviewCap' = s.reviewCap
    /\ sessionEndReason' = s.sessionEndReason
    /\ postStale' = s.postStale

\* A turn of the study session alone.
Set(s) == SetSession(s) /\ UNCHANGED << analyticsVars, authVars, pageVars >>

----------------------------------------------------------------------------
(* Computed values *)

isLoggedIn(s) == s.user

\* cards.value?.length ?? 0
cardsLength(s) == IF s.cards = Null THEN 0 ELSE s.cards

\* The `mode` query parameter of the card URL ("none": not appended).
url(s) == IF isLoggedIn(s) /\ s.mode # "all" THEN s.mode ELSE "none"

\* The current card: its position in the list, NoCard for null.
card(s) ==
    IF s.sessionFinished THEN NoCard
    ELSE IF isLoggedIn(s)
         THEN (IF cardsLength(s) > 0 THEN 0 ELSE NoCard)
         ELSE (IF s.cardIndex < cardsLength(s) THEN s.cardIndex ELSE NoCard)

remainingCards(s) ==
    IF isLoggedIn(s) THEN cardsLength(s) ELSE cardsLength(s) - s.cardIndex

hasMoreCards(s) == remainingCards(s) > 0

----------------------------------------------------------------------------
(* Handlers, as functions from state to state *)

\* navigateTo('/'): the route change starts, the page unmounts later.
navigateTo(s) ==
    IF s.page = "mounted" THEN [s EXCEPT !.page = "leaving"] ELSE s

mounted(s) == s.page # "gone"

\* Faulty variant: the sessionEndEmitted flag is not consulted.
emitSessionEndUnguarded(s, reason) ==
    [s EXCEPT !.sessionEndEmitted = TRUE,
              !.sessionEndReason = IF @ = "none" THEN reason ELSE @,
              !.sessionEndCount = Min(@ + 1, MaxTracked)]

emitSessionEnd(s, reason) ==
    IF s.sessionEndEmitted THEN s
    ELSE [s EXCEPT !.sessionEndEmitted = TRUE,
                   !.sessionEndReason = IF @ = "none" THEN reason ELSE @,
                   !.sessionEndCount = Min(@ + 1, MaxTracked)]

\* Faulty variant: no early return when nothing has been reviewed.
finishSessionAlways(s, reason) ==
    [emitSessionEnd(s, reason) EXCEPT !.sessionFinished = TRUE]

finishSession(s, reason) ==
    LET e == emitSessionEnd(s, reason)
    IN  IF e.cardsReviewedInSession = 0
        THEN navigateTo(e)
        ELSE [e EXCEPT !.sessionFinished = TRUE]

\* watch(cards, ...): the batch size of a fresh batch.
watchCards(s) ==
    IF s.cards # Null /\ s.currentBatchSize = 0
    THEN [s EXCEPT !.currentBatchSize =
                     IF s.mode = "due" THEN s.cards
                     ELSE Min(BATCH_SIZE, s.cards)]
    ELSE s

\* watch(mode, ...): reset of the batch state.
watchMode(s) ==
    [s EXCEPT !.cardsReviewedInBatch = 0,
              !.currentBatchSize = 0,
              !.sessionFinished = FALSE,
              !.cardIndex = 0,
              !.cards = 0,
              !.postStale = s.inPost > 0]

\* watch(card, ...), run when the current card has changed.
watchCard(s) ==
    LET r == IF isLoggedIn(s)
             THEN [s EXCEPT !.revealed = FALSE,
                            !.buttonsEnabled = FALSE,
                            !.buttonsTimer = TimerNull]
             ELSE s
    IN  IF card(r) = NoCard /\ ~r.sessionFinished
        THEN finishSession(r, "completed")
        ELSE r

\* The watcher flush that ends a turn: `old` is the state before the turn,
\* `s` the state the handler has left, `fresh` says that cards.value was
\* replaced by a list of new objects.  Watchers are stopped at unmount.
flushCard(old, s, fresh) ==
    LET changed == IF fresh
                   THEN ~(card(old) = NoCard /\ card(s) = NoCard)
                   ELSE card(old) # card(s)
    IN  IF mounted(s) /\ changed THEN watchCard(s) ELSE s

\* Faulty variant: the flip back does not clear the pending timer.
flipCardNoClear(s) ==
    IF ~s.revealed
    THEN [s EXCEPT !.revealed = TRUE,
                   !.sinceReveal = 0,
                   !.buttonsEnabled = FALSE,
                   !.buttonsTimer = ButtonDelayMs]
    ELSE [s EXCEPT !.revealed = FALSE,
                   !.buttonsEnabled = FALSE]

flipCard(s) ==
    IF ~s.revealed
    THEN [s EXCEPT !.revealed = TRUE,
                   !.sinceReveal = 0,
                   !.buttonsEnabled = FALSE,
                   !.buttonsTimer = ButtonDelayMs,
                   !.leakedTimers =
                       IF s.buttonsTimer >= 0 /\ Len(@) < MaxLeaked
                       THEN Append(@, s.buttonsTimer) ELSE @]
    ELSE [s EXCEPT !.revealed = FALSE,
                   !.buttonsEnabled = FALSE,
                   !.buttonsTimer = TimerNull]

\* Faulty variant: no session_end at the end of the list.
nextCardSilent(s) ==
    LET a == [s EXCEPT !.cardsReviewedInSession = @ + 1,
                       !.cardsReviewedInBatch = @ + 1,
                       !.cardIndex = @ + 1,
                       !.revealed = FALSE]
    IN  IF a.cardsReviewedInBatch >= a.currentBatchSize
        THEN [a EXCEPT !.sessionFinished = TRUE] ELSE a

\* Faulty variant: the batch is finished only when the counter exceeds it.
nextCardStrict(s) ==
    LET a == [s EXCEPT !.cardsReviewedInSession = @ + 1,
                       !.cardsReviewedInBatch = @ + 1,
                       !.cardIndex = @ + 1,
                       !.revealed = FALSE]
        b == IF a.cardsReviewedInBatch > a.currentBatchSize
             THEN [a EXCEPT !.sessionFinished = TRUE] ELSE a
    IN  IF ~(b.cardIndex < cardsLength(b))
        THEN emitSessionEnd(b, "completed") ELSE b

nextCard(s) ==
    LET a == [s EXCEPT !.cardsReviewedInSession = @ + 1,
                       !.cardsReviewedInBatch = @ + 1,
                       !.cardIndex = @ + 1,
                       !.revealed = FALSE]
        b == IF a.cardsReviewedInBatch >= a.currentBatchSize
             THEN [a EXCEPT !.sessionFinished = TRUE] ELSE a
    IN  IF ~(b.cardIndex < cardsLength(b))
        THEN emitSessionEnd(b, "completed") ELSE b

keepGoing(s) ==
    [s EXCEPT !.cardsReviewedInBatch = 0,
              !.sessionFinished = FALSE,
              !.currentBatchSize =
                  IF s.mode = "due" THEN cardsLength(s)
                  ELSE IF isLoggedIn(s) THEN Min(BATCH_SIZE, cardsLength(s))
                  ELSE Min(BATCH_SIZE, cardsLength(s) - s.cardIndex),
              !.revealed = FALSE,
              !.postStale = @ \/ s.inPost > 0]

\* useFetch refetches when its url has changed during the turn.
refetchOnUrl(old, s) ==
    IF mounted(s) /\ url(old) # url(s)
    THEN [s EXCEPT !.fetchPending = TRUE] ELSE s

\* Faulty variant: the isSubmitting guard is missing.
recordResponseCallUnguarded(s) ==
    IF card(s) = NoCard THEN s
    ELSE [s EXCEPT !.isSubmitting = TRUE, !.inPost = @ + 1]

\* recordResponse up to its first await: the guard, and the POST.
recordResponseCall(s) ==
    IF card(s) = NoCard \/ s.isSubmitting THEN s
    ELSE [s EXCEPT !.isSubmitting = TRUE, !.inPost = @ + 1]

\* Faulty variant: the batch is finished only when the counter exceeds it.
recordResponseOkStrict(s) ==
    LET a == [s EXCEPT !.inPost = @ - 1,
                       !.postStale = FALSE,
                       !.cardsReviewedInSession = @ + 1,
                       !.cardsReviewedInBatch = @ + 1]
        b == IF a.cardsReviewedInBatch > a.currentBatchSize
             THEN [a EXCEPT !.sessionFinished = TRUE] ELSE a
    IN  [b EXCEPT !.fetchPending = TRUE, !.inRefresh = @ + 1]

\* Faulty variant: every successful submission finishes the session.
recordResponseOkAlways(s) ==
    [s EXCEPT !.inPost = @ - 1,
              !.postStale = FALSE,
              !.cardsReviewedInSession = @ + 1,
              !.cardsReviewedInBatch = @ + 1,
              !.sessionFinished = TRUE,
              !.fetchPending = TRUE,
              !.inRefresh = @ + 1]

\* recordResponse after a successful POST, up to `await refresh()`.
recordResponseOk(s) ==
    LET a == [s EXCEPT !.inPost = @ - 1,
                       !.postStale = FALSE,
                       !.cardsReviewedInSession = @ + 1,
                       !.cardsReviewedInBatch = @ + 1]
        b == IF a.cardsReviewedInBatch >= a.currentBatchSize
             THEN [a EXCEPT !.sessionFinished = TRUE] ELSE a
    IN  [b EXCEPT !.fetchPending = TRUE, !.inRefresh = @ + 1]

\* handleKeydown for the keys 1, 2 and 3.
handleKeydownRate(s) ==
    IF card(s) = NoCard \/ s.sessionFinished THEN s
    ELSE IF ~s.revealed THEN s
    ELSE IF isLoggedIn(s)
         THEN (IF s.buttonsEnabled THEN recordResponseCall(s) ELSE s)
         ELSE nextCard(s)

\* Faulty variant: a click emits 'rate' whether or not the buttons are
\* enabled.
reviewButtonsClickAlways(s) ==
    IF card(s) # NoCard /\ s.revealed /\ isLoggedIn(s)
    THEN recordResponseCall(s) ELSE s

\* A click on a rating button of ReviewButtons, shown with the card:
\* v-if="revealed && isLoggedIn", @click="buttonsEnabled && $emit('rate')",
\* and the page's @rate="recordResponse".
reviewButtonsClick(s) ==
    IF card(s) # NoCard /\ s.revealed /\ isLoggedIn(s) /\ s.buttonsEnabled
    THEN recordResponseCall(s) ELSE s

\* useAuth.logout up to its await.
logout(s) == [s EXCEPT !.tokenCookie = FALSE, !.user = FALSE]

\* recordResponse after a POST that failed with 401, up to `await logout()`.
recordResponse401(s) ==
    LET a == logout([s EXCEPT !.inPost = @ - 1, !.postStale = FALSE,
                              !.unauthorized = TRUE])
    IN  [a EXCEPT !.inLogout = @ + 1]

\* Faulty variant: a failed submission is counted.
recordResponseErrorCounts(s) ==
    [s EXCEPT !.inPost = @ - 1, !.postStale = FALSE,
              !.cardsReviewedInSession = @ + 1,
              !.cardsReviewedInBatch = @ + 1,
              !.isSubmitting = FALSE]

\* recordResponse after a POST that failed otherwise: catch, finally.
recordResponseError(s) ==
    [s EXCEPT !.inPost = @ - 1, !.postStale = FALSE,
              !.isSubmitting = FALSE]

\* recordResponse after logout() has settled: navigateTo('/'), finally.
recordResponseLoggedOut(s) ==
    navigateTo([s EXCEPT !.inLogout = @ - 1, !.isSubmitting = FALSE])

\* recordResponse after refresh() has settled: refreshStreak(), finally.
recordResponseRefreshed(s) ==
    IF s.inRefresh > 0
    THEN [s EXCEPT !.inRefresh = 0, !.isSubmitting = FALSE] ELSE s

----------------------------------------------------------------------------
(* Initial states: useStudySession has returned, the first fetch has       *)
(* settled (n cards, or Null after an error) and the immediate run of      *)
(* watch(cards) has set the batch size.                                    *)

SessionFields(modes, counts, cap) ==
    /\ mode \in modes
    /\ cards \in counts
    /\ listArrived = (cards # Null)
    /\ unauthorized = FALSE
    /\ reviewCap = cap
    /\ currentBatchSize =
         watchCards([cards |-> cards, mode |-> mode,
                     currentBatchSize |-> 0]).currentBatchSize
    /\ fetchPending = FALSE
    /\ cardIndex = 0
    /\ cardsReviewedInBatch = 0
    /\ cardsReviewedInSession = 0
    /\ sessionFinished = FALSE
    /\ sessionEndEmitted = FALSE
    /\ sessionEndCount = 0
    /\ revealed = FALSE
    /\ buttonsEnabled = FALSE
    /\ buttonsTimer = TimerNull
    /\ leakedTimers = << >>
    /\ sinceReveal = 0
    /\ isSubmitting = FALSE
    /\ inPost = 0
    /\ inRefresh = 0
    /\ inLogout = 0
    /\ page = "mounted"
    /\ sessionEndReason = "none"
    /\ postStale = FALSE

\* useAnalytics() has returned: nothing tracked yet.
AnalyticsFields ==
    /\ buffer = << >>
    /\ flights = << >>
    /\ tracked = 0
    /\ delivered = {}
    /\ beaconed = {}
    /\ flushed = {}

\* The quiz page and the lesson page are not open.
NotOpen == [open |-> FALSE]

PageFields == quizPage = NotOpen /\ lessonPage = NotOpen

\* No auth call has settled yet.
NoOutcome == [call |-> "none", response |-> "none", result |-> "none"]

\* The auth plugin has settled and no auth call is pending.
AuthFields ==
    /\ authReady = TRUE
    /\ rehydratePc = "done"
    /\ loginPc = "idle"
    /\ signupPc = "idle"
    /\ logoutPc = "idle"
    /\ lastOutcome = NoOutcome

InitSession(logins, modes, counts, cap) ==
    /\ \E li \in logins : user = li /\ tokenCookie = li
    /\ SessionFields(modes, counts, cap)
    /\ AnalyticsFields
    /\ AuthFields
    /\ PageFields

Init == InitSession(BOOLEAN, Modes, {Null} \cup CardCounts, MaxReviews)

----------------------------------------------------------------------------
(* Actions *)

\* The card is clicked, or Space/Enter is pressed on the front side.
FlipCard ==
    /\ mounted(State)
    /\ card(State) # NoCard
    /\ Set(flipCard(State))

\* "Next card" is clicked, or a key pressed, by an anonymous user.
NextCard ==
    /\ mounted(State)
    /\ card(State) # NoCard
    /\ revealed
    /\ ~isLoggedIn(State)
    /\ cardsReviewedInSession < reviewCap
    /\ Set(flushCard(State, nextCard(State), FALSE))

\* "Keep going" is clicked on the completion screen.
KeepGoing ==
    /\ mounted(State)
    /\ sessionFinished \/ card(State) = NoCard
    /\ hasMoreCards(State)
    /\ Set(flushCard(State, keepGoing(State), FALSE))

\* "Stop reviewing" / the breadcrumb is clicked.
FinishSession ==
    /\ mounted(State)
    /\ \E reason \in {"user_ended", "completed"} :
          Set(flushCard(State, finishSession(State, reason), FALSE))

\* recordResponse is called (rate event of the buttons, keys 1/2/3).
RecordResponse ==
    /\ mounted(State)
    /\ cardsReviewedInSession + inPost < reviewCap
    /\ inPost < MaxInFlight
    /\ Set(recordResponseCall(State))

\* A review POST resolves.
PostOk ==
    /\ inPost > 0
    /\ Set(flushCard(State, recordResponseOk(State), FALSE))

\* A review POST fails with status 401.
Post401 ==
    /\ inPost > 0
    /\ LET s == recordResponse401(State)
       IN  Set(flushCard(State, refetchOnUrl(State, s), FALSE))

\* A review POST fails with another error.
PostError ==
    /\ inPost > 0
    /\ Set(recordResponseError(State))

\* POST /auth/logout settles (its failure is swallowed).
LogoutDone ==
    /\ inLogout > 0
    /\ Set(recordResponseLoggedOut(State))

\* The GET /flashcards in flight settles with n cards (Null: it fails).
FetchResult(counts) ==
    /\ fetchPending
    /\ \E n \in counts :
          LET a == [State EXCEPT !.fetchPending = FALSE, !.cards = n,
                                 !.listArrived = @ \/ n # Null]
              b == IF mounted(a) THEN watchCards(a) ELSE a
              c == flushCard(State, b, n # Null)
          IN  Set(recordResponseRefreshed(c))

FetchDone == FetchResult({Null} \cup CardCounts)

\* The page changes the mode.
ModeChange ==
    /\ mounted(State)
    /\ \E m \in Modes \ {mode} :
          LET a == [State EXCEPT !.mode = m, !.listArrived = FALSE]
              b == watchCards(watchMode(a))
              c == refetchOnUrl(State, b)
          IN  Set(flushCard(State, c, FALSE))

\* window 'beforeunload'.
BeforeUnload ==
    /\ mounted(State)
    /\ Set(emitSessionEnd(State, "navigated_away"))

\* onBeforeUnmount of useStudySession: the timer is cleared, session_end
\* is tracked; the component is gone afterwards.
onBeforeUnmount(s) ==
    [emitSessionEnd(s, "navigated_away") EXCEPT
        !.page = "gone",
        !.buttonsTimer = IF @ >= 0 THEN TimerDone ELSE @]

\* onBeforeUnmount.
Unmount ==
    /\ mounted(State)
    /\ Set(onBeforeUnmount(State))

\* TickMs of time pass.
Tick ==
    /\ \/ revealed /\ sinceReveal < ButtonDelayMs
       \/ buttonsTimer > 0
       \/ \E i \in 1 .. Len(leakedTimers) : leakedTimers[i] > 0
    /\ Set([State EXCEPT
              !.sinceReveal = Min(ButtonDelayMs, @ + TickMs),
              !.buttonsTimer = IF @ >= 0 THEN Max(0, @ - TickMs) ELSE @,
              !.leakedTimers = [i \in 1 .. Len(@) |-> Max(0, @[i] - TickMs)]])

\* The timer buttonsTimer refers to runs.
TimerFire ==
    /\ buttonsTimer = 0
    /\ Set([State EXCEPT !.buttonsEnabled = TRUE, !.buttonsTimer = TimerDone])

\* A timer that no handle refers to any more runs.
LeakedTimerFire ==
    \E i \in 1 .. Len(leakedTimers) :
        /\ leakedTimers[i] = 0
        /\ Set([State EXCEPT !.buttonsEnabled = TRUE,
                             !.leakedTimers = RemoveAt(@, i)])

\* One of the keys 1, 2, 3 is pressed outside a button or input.
KeyRate ==
    /\ mounted(State)
    /\ cardsReviewedInSession + inPost < reviewCap
    /\ Set(flushCard(State, handleKeydownRate(State), FALSE))

\* The place of the rating buttons is clicked.
ClickRate ==
    /\ mounted(State)
    /\ cardsReviewedInSession + inPost < reviewCap
    /\ Set(reviewButtonsClick(State))

\* The session: every event but the passage of time.  The timers write
\* buttonsEnabled only, which no handler of the session reads.
Next ==
    \/ FlipCard
    \/ NextCard
    \/ KeepGoing
    \/ FinishSession
    \/ RecordResponse
    \/ PostOk
    \/ Post401
    \/ PostError
    \/ LogoutDone
    \/ FetchDone
    \/ ModeChange
    \/ BeforeUnload
    \/ Unmount

Spec == Init /\ [][Next]_vars

\* A logged-in session in mode "new" against a backend that has at least
\* BATCH_SIZE new cards at every fetch; the mode is not changed.
InitNew ==
    InitSession({TRUE}, {"new"}, BATCH_SIZE .. BATCH_SIZE + MaxOver,
                BATCH_SIZE + 1)

FetchMany == FetchResult(BATCH_SIZE .. BATCH_SIZE + MaxOver)

NextNew ==
    \/ FlipCard
    \/ NextCard
    \/ KeepGoing
    \/ FinishSession
    \/ RecordResponse
    \/ PostOk
    \/ Post401
    \/ PostError
    \/ LogoutDone
    \/ FetchMany
    \/ BeforeUnload
    \/ Unmount

SpecNew == InitNew /\ [][NextNew]_vars

\* The study page as the user drives it, with the clock: flips, rating
\* keys and clicks, and the answers of the backend.
InitRate == InitSession(BOOLEAN, {"due"}, 1 .. MaxFew, MaxFew)

NextRate ==
    \/ FlipCard
    \/ KeyRate
    \/ ClickRate
    \/ Tick
    \/ TimerFire
    \/ LeakedTimerFire
    \/ PostOk
    \/ Post401
    \/ PostError
    \/ LogoutDone
    \/ FetchDone

SpecRate == InitRate /\ [][NextRate]_vars

\* Only flips and the passage of time.
NextFlip == FlipCard \/ Tick \/ TimerFire

SpecFlip == Init /\ [][NextFlip]_vars

----------------------------------------------------------------------------
(* useAnalytics: the event buffer and its flushes.  An event is identified *)
(* by its number in the order of the track calls.                          *)

\* buffer.push(event)
trackPush(buf, e) == Append(buf, e)

\* Faulty variant: the failed batch is queued behind the buffer.
flushRequeueBehind(buf, events) == buf \o events

\* buffer.unshift(...events) in the catch block of flush.
flushRequeue(buf, events) == events \o buf

InitAnalytics ==
    /\ user = FALSE /\ tokenCookie = FALSE
    /\ SessionFields({"all"}, {Null}, 0)
    /\ AnalyticsFields
    /\ AuthFields
    /\ PageFields

Track ==
    /\ tracked < MaxEvents
    /\ tracked' = tracked + 1
    /\ buffer' = trackPush(buffer, tracked + 1)
    /\ UNCHANGED << flights, delivered, beaconed, flushed >>
    /\ UNCHANGED << user, tokenCookie, sessionVars, authVars, pageVars >>

\* flush up to its await: the buffer is emptied into the POST body.
Flush ==
    /\ Len(buffer) > 0
    /\ Len(flights) < MaxFlights
    /\ flights' = Append(flights, buffer)
    /\ flushed' = flushed \cup Elems(buffer)
    /\ buffer' = << >>
    /\ UNCHANGED << tracked, delivered, beaconed >>
    /\ UNCHANGED << user, tokenCookie, sessionVars, authVars, pageVars >>

\* A flush POST resolves.
FlushOk ==
    \E i \in 1 .. Len(flights) :
        /\ delivered' = delivered \cup Elems(flights[i])
        /\ flights' = RemoveAt(flights, i)
        /\ UNCHANGED << buffer, tracked, beaconed, flushed >>
        /\ UNCHANGED << user, tokenCookie, sessionVars, authVars, pageVars >>

\* A flush POST rejects.
FlushFail ==
    \E i \in 1 .. Len(flights) :
        /\ buffer' = flushRequeue(buffer, flights[i])
        /\ flights' = RemoveAt(flights, i)
        /\ UNCHANGED << tracked, delivered, beaconed, flushed >>
        /\ UNCHANGED << user, tokenCookie, sessionVars, authVars, pageVars >>

\* flushBeacon: visibilitychange to hidden, or beforeunload.
FlushBeacon ==
    /\ Len(buffer) > 0
    /\ beaconed' = beaconed \cup Elems(buffer)
    /\ flushed' = flushed \cup Elems(buffer)
    /\ buffer' = << >>
    /\ UNCHANGED << flights, tracked, delivered >>
    /\ UNCHANGED << user, tokenCookie, sessionVars, authVars, pageVars >>

NextAnalytics == Track \/ Flush \/ FlushOk \/ FlushFail \/ FlushBeacon

SpecAnalytics == InitAnalytics /\ [][NextAnalytics]_vars

----------------------------------------------------------------------------
(* useAuth and the auth plugin.  Every await is a step boundary.           *)

Auth ==
    [ user |-> user, tokenCookie |-> tokenCookie, authReady |-> authReady,
      rehydratePc |-> rehydratePc, loginPc |-> loginPc,
      signupPc |-> signupPc, logoutPc |-> logoutPc,
      lastOutcome |-> lastOutcome ]

SetAuth(a) ==
    /\ user' = a.user
    /\ tokenCookie' = a.tokenCookie
    /\ authReady' = a.authReady
    /\ rehydratePc' = a.rehydratePc
    /\ loginPc' = a.loginPc
    /\ signupPc' = a.signupPc
    /\ logoutPc' = a.logoutPc
    /\ lastOutcome' = a.lastOutcome
    /\ UNCHANGED << sessionVars, analyticsVars, pageVars >>

Outcome(c, r, e) == [call |-> c, response |-> r, result |-> e]

\* The plugin up to its await, or to its end when there is nothing to fetch.
pluginStart(a) ==
    IF a.tokenCookie /\ ~a.user
    THEN [a EXCEPT !.rehydratePc = "fetching"]
    ELSE [a EXCEPT !.rehydratePc = "done", !.authReady = TRUE]

\* The plugin after GET /api/users/me has resolved.
pluginMeOk(a) ==
    [a EXCEPT !.user = TRUE, !.rehydratePc = "done", !.authReady = TRUE,
              !.lastOutcome = Outcome("rehydrate", "ok", "returned")]

\* Faulty variant: the token is kept when the profile cannot be fetched.
pluginMeFailKeepsToken(a) ==
    [a EXCEPT !.user = FALSE, !.rehydratePc = "done", !.authReady = TRUE,
              !.lastOutcome = Outcome("rehydrate", "failed", "returned")]

\* The plugin after GET /api/users/me has rejected.
pluginMeFail(a) ==
    [a EXCEPT !.tokenCookie = FALSE, !.user = FALSE,
              !.rehydratePc = "done", !.authReady = TRUE,
              !.lastOutcome = Outcome("rehydrate", "failed", "returned")]

\* login up to the await of POST /token.
loginCall(a) == [a EXCEPT !.loginPc = "token"]

\* login after POST /token has resolved, up to the await of /users/me.
loginTokenOk(a) == [a EXCEPT !.tokenCookie = TRUE, !.loginPc = "me"]

\* login after /users/me has resolved.
loginMeOk(a) ==
    [a EXCEPT !.user = TRUE, !.loginPc = "idle",
              !.lastOutcome = Outcome("login", "ok", "returned")]

\* login after one of its two calls has rejected: the error propagates.
loginFail(a) ==
    [a EXCEPT !.loginPc = "idle",
              !.lastOutcome = Outcome("login", "failed", "thrown")]

\* signup up to the await of POST /signup.
signupCall(a) == [a EXCEPT !.signupPc = "token"]

\* signup after POST /signup has resolved, up to the await of /users/me.
signupTokenOk(a) == [a EXCEPT !.tokenCookie = TRUE, !.signupPc = "me"]

\* Faulty variant: the fetched profile is not stored.
signupMeOkNoUser(a) ==
    [a EXCEPT !.signupPc = "idle",
              !.lastOutcome = Outcome("signup", "ok", "returned")]

\* signup after /users/me has resolved.
signupMeOk(a) ==
    [a EXCEPT !.user = TRUE, !.signupPc = "idle",
              !.lastOutcome = Outcome("signup", "ok", "returned")]

\* signup after one of its two calls has rejected: the error propagates.
signupFail(a) ==
    [a EXCEPT !.signupPc = "idle",
              !.lastOutcome = Outcome("signup", "failed", "thrown")]

\* logout up to the await of POST /auth/logout.
logoutCall(a) == [logout(a) EXCEPT !.logoutPc = "post"]

\* Faulty variant: the rejection of POST /auth/logout propagates.
logoutSettledThrows(a, r) ==
    [a EXCEPT !.logoutPc = "idle",
              !.lastOutcome = Outcome("logout", r,
                                  IF r = "ok" THEN "returned" ELSE "thrown")]

\* logout after POST /auth/logout has settled with response r.
logoutSettled(a, r) ==
    [a EXCEPT !.logoutPc = "idle",
              !.lastOutcome = Outcome("logout", r, "returned")]

\* A fresh load: the cookie may hold a token; the user state is null, or
\* the profile the server has rendered the page with.
InitAuth ==
    /\ tokenCookie \in BOOLEAN
    /\ user \in BOOLEAN
    /\ user => tokenCookie
    /\ authReady = FALSE
    /\ rehydratePc = "start"
    /\ loginPc = "idle"
    /\ signupPc = "idle"
    /\ logoutPc = "idle"
    /\ lastOutcome = NoOutcome
    /\ SessionFields({"all"}, {Null}, 0)
    /\ AnalyticsFields
    /\ PageFields

PluginStart == rehydratePc = "start" /\ SetAuth(pluginStart(Auth))

PluginMeOk == rehydratePc = "fetching" /\ SetAuth(pluginMeOk(Auth))

PluginMeFail == rehydratePc = "fetching" /\ SetAuth(pluginMeFail(Auth))

\* The pages call login, signup and logout once the plugin has settled.
LoginCall ==
    rehydratePc = "done" /\ loginPc = "idle" /\ SetAuth(loginCall(Auth))

LoginTokenOk == loginPc = "token" /\ SetAuth(loginTokenOk(Auth))

LoginMeOk == loginPc = "me" /\ SetAuth(loginMeOk(Auth))

LoginFail == loginPc # "idle" /\ SetAuth(loginFail(Auth))

SignupCall ==
    rehydratePc = "done" /\ signupPc = "idle" /\ SetAuth(signupCall(Auth))

SignupTokenOk == signupPc = "token" /\ SetAuth(signupTokenOk(Auth))

SignupMeOk == signupPc = "me" /\ SetAuth(signupMeOk(Auth))

SignupFail == signupPc # "idle" /\ SetAuth(signupFail(Auth))

LogoutCall ==
    rehydratePc = "done" /\ logoutPc = "idle" /\ SetAuth(logoutCall(Auth))

LogoutSettled ==
    /\ logoutPc = "post"
    /\ \E r \in {"ok", "failed"} : SetAuth(logoutSettled(Auth, r))

NextAuth ==
    \/ PluginStart
    \/ PluginMeOk
    \/ PluginMeFail
    \/ LoginCall
    \/ LoginTokenOk
    \/ LoginMeOk
    \/ LoginFail
    \/ SignupCall
    \/ SignupTokenOk
    \/ SignupMeOk
    \/ SignupFail
    \/ LogoutCall
    \/ LogoutSettled

SpecAuth == InitAuth /\ [][NextAuth]_vars

----------------------------------------------------------------------------
(* The study page with its analytics.  pages/category/[slug].vue calls     *)
(* useAnalytics() before useStudySession(), so the listeners and the       *)
(* hooks of useAnalytics run before those of the study session.            *)

\* The id of the session_end event in the buffer (other events: 1, 2, ...).
SessionEndId == 0

\* The buffer after emitSessionEnd has run in state s: track appends the
\* event unless one was emitted before.
emitSessionEndTrack(s, buf) ==
    IF s.sessionEndEmitted THEN buf ELSE trackPush(buf, SessionEndId)

\* flushBeacon on the buffer buf: the events handed to sendBeacon.
flushBeacon(buf) == [sent |-> Elems(buf), buffer |-> << >>]

InitPage == InitSession(BOOLEAN, {"due"}, 1 .. MaxFew, 0)

\* An event other than session_end is tracked by the mounted page.
PageTrack == mounted(State) /\ Track

\* The interval timer of useAnalytics runs flush.
PageFlush == mounted(State) /\ Flush

\* visibilitychange to hidden.
PageHidden == mounted(State) /\ FlushBeacon

\* finishSession is called (breadcrumb, "Back to categories").
PageFinish ==
    /\ mounted(State)
    /\ \E reason \in {"user_ended", "completed"} :
          SetSession(flushCard(State, finishSession(State, reason), FALSE))
    /\ buffer' = emitSessionEndTrack(State, buffer)
    /\ UNCHANGED << flights, tracked, delivered, beaconed, flushed >>
    /\ UNCHANGED << authVars, pageVars >>

\* window 'beforeunload': onBeforeUnload of useAnalytics (flushBeacon),
\* then handleBeforeUnload (emitSessionEnd, flushBeacon).
PageBeforeUnload ==
    /\ mounted(State)
    /\ LET first == flushBeacon(buffer)
           b == emitSessionEndTrack(State, first.buffer)
           second == flushBeacon(b)
       IN  /\ SetSession(emitSessionEnd(State, "navigated_away"))
           /\ buffer' = second.buffer
           /\ beaconed' = beaconed \cup first.sent \cup second.sent
           /\ flushed' = flushed \cup first.sent \cup second.sent
    /\ UNCHANGED << flights, tracked, delivered, authVars, pageVars >>

\* The page unmounts: onBeforeUnmount of useAnalytics (the interval is
\* cleared, the listeners are removed, flush() is called), then
\* onBeforeUnmount of useStudySession (emitSessionEnd).
PageUnmount ==
    /\ mounted(State)
    /\ Len(flights) < MaxFlights
    /\ SetSession(onBeforeUnmount(State))
    /\ flights' = IF Len(buffer) > 0 THEN Append(flights, buffer) ELSE flights
    /\ flushed' = flushed \cup Elems(buffer)
    /\ buffer' = emitSessionEndTrack(State, << >>)
    /\ UNCHANGED << tracked, delivered, beaconed, authVars, pageVars >>

NextPage ==
    \/ PageTrack
    \/ PageFlush
    \/ PageHidden
    \/ PageFinish
    \/ PageBeforeUnload
    \/ PageUnmount
    \/ FlushOk
    \/ FlushFail

SpecPage == InitPage /\ [][NextPage]_vars

----------------------------------------------------------------------------
(* The quiz page, pages/quiz/[slug].vue.  A question is identified by its  *)
(* position in quiz.questions; `questions` holds the correct_index of      *)
(* each.  A map from question ids is a function on all ids, NoAnswer       *)
(* standing for a missing key.                                             *)

NoAnswer == -1          \* no entry in a map of answers; a null selection
NoQuestion == 0         \* currentQuestion is null

NoResult == [present |-> FALSE, score |-> 0, total |-> 0]

Result(s, n) == [present |-> TRUE, score |-> s, total |-> n]

Options == 0 .. MaxOption

NoAnswers(correct) == [i \in 1 .. Len(correct) |-> NoAnswer]

\* The refs of the page after setup, for a quiz with the given correct
\* indices; inSubmit holds the bodies of the submit POSTs in flight.
\* History, written by the actions only: firstPick is the option first
\* selected for each question in the attempt, rounds the number of rounds
\* begun in it, submitOutcome how the last submit POST ended.
QuizSetup(correct) ==
    [ open |-> TRUE, questions |-> correct,
      currentIndex |-> 0, answers |-> NoAnswers(correct),
      selectedForCurrent |-> NoAnswer, showResult |-> FALSE,
      quizComplete |-> FALSE, submitResult |-> NoResult,
      submitting |-> FALSE, retryQuestions |-> << >>,
      inRetryRound |-> FALSE, firstPassAnswers |-> NoAnswers(correct),
      inSubmit |-> << >>,
      firstPick |-> NoAnswers(correct), rounds |-> 1,
      submitOutcome |-> "none" ]

QuestionIds(q) == [i \in 1 .. Len(q.questions) |-> i]

activeQuestions(q) ==
    IF q.inRetryRound THEN q.retryQuestions ELSE QuestionIds(q)

currentQuestion(q) ==
    IF q.currentIndex < Len(activeQuestions(q))
    THEN activeQuestions(q)[q.currentIndex + 1] ELSE NoQuestion

selectOption(q, optionIndex) ==
    IF q.showResult THEN q
    ELSE LET c == currentQuestion(q)
         IN  [q EXCEPT !.selectedForCurrent = optionIndex,
                       !.showResult = TRUE,
                       !.answers = IF c # NoQuestion
                                   THEN [@ EXCEPT ![c] = optionIndex] ELSE @]

\* The questions whose entry in the map a differs from correct_index, in
\* quiz order.
missed(q, a) ==
    LET wrong(i) == a[i] # q.questions[i]
    IN  SelectSeq(QuestionIds(q), wrong)

\* Faulty variant: the answers as they are now are submitted.
scoreAnswersCurrent(q) == q.answers

\* inRetryRound.value ? firstPassAnswers.value : answers.value
scoreAnswers(q) ==
    IF q.inRetryRound THEN q.firstPassAnswers ELSE q.answers

\* submitQuiz up to the await of the POST.
submitQuizCall(q) ==
    [q EXCEPT !.submitting = TRUE,
              !.inSubmit = Append(@, scoreAnswers(q))]

\* Faulty variant: the end of the retry round starts another one.
nextQuestionRetryAgain(q) ==
    IF q.currentIndex < Len(activeQuestions(q)) - 1
    THEN [q EXCEPT !.currentIndex = @ + 1,
                   !.selectedForCurrent = NoAnswer,
                   !.showResult = FALSE]
    ELSE IF Len(missed(q, q.answers)) > 0
         THEN [q EXCEPT !.firstPassAnswers = q.answers,
                        !.retryQuestions = missed(q, q.answers),
                        !.inRetryRound = TRUE,
                        !.currentIndex = 0,
                        !.selectedForCurrent = NoAnswer,
                        !.showResult = FALSE]
         ELSE submitQuizCall(q)

\* nextQuestion, up to the await in submitQuiz when it submits.
nextQuestion(q) ==
    IF q.currentIndex < Len(activeQuestions(q)) - 1
    THEN [q EXCEPT !.currentIndex = @ + 1,
                   !.selectedForCurrent = NoAnswer,
                   !.showResult = FALSE]
    ELSE IF ~q.inRetryRound
         THEN (IF Len(missed(q, q.answers)) > 0
               THEN [q EXCEPT !.firstPassAnswers = q.answers,
                              !.retryQuestions = missed(q, q.answers),
                              !.inRetryRound = TRUE,
                              !.currentIndex = 0,
                              !.selectedForCurrent = NoAnswer,
                              !.showResult = FALSE]
               ELSE submitQuizCall(q))
         ELSE submitQuizCall(q)

\* submitQuiz after the POST has resolved with `result`: try, finally.
submitQuizOk(q, result) ==
    [q EXCEPT !.inSubmit = Tail(@),
              !.submitResult = result,
              !.submitting = FALSE,
              !.quizComplete = TRUE]

\* The score of the answers a: results.filter(r => r.correct).length
localScore(q, a) ==
    Cardinality({ i \in 1 .. Len(q.questions) : a[i] = q.questions[i] })

\* Faulty variant: the failure leaves no result.
submitQuizFailNoResult(q) ==
    [q EXCEPT !.inSubmit = Tail(@),
              !.submitting = FALSE,
              !.quizComplete = TRUE]

\* submitQuiz after the POST has rejected: catch, finally.
submitQuizFail(q) ==
    [q EXCEPT !.inSubmit = Tail(@),
              !.submitResult =
                  Result(localScore(q, scoreAnswers(q)), Len(q.questions)),
              !.submitting = FALSE,
              !.quizComplete = TRUE]

tryAgain(q) ==
    [q EXCEPT !.currentIndex = 0,
              !.answers = NoAnswers(q.questions),
              !.selectedForCurrent = NoAnswer,
              !.showResult = FALSE,
              !.quizComplete = FALSE,
              !.submitResult = NoResult,
              !.submitting = FALSE,
              !.retryQuestions = << >>,
              !.inRetryRound = FALSE,
              !.firstPassAnswers = NoAnswers(q.questions)]

\* The template shows the score screen.
scoreScreen(q) == q.quizComplete /\ q.submitResult.present

\* The template shows the current question.
questionShown(q) ==
    ~scoreScreen(q) /\ Len(q.questions) > 0 /\ currentQuestion(q) # NoQuestion

\* The quizzes the backend serves: every question has a correct option.
Quizzes ==
    UNION { [1 .. n -> Options] : n \in 0 .. MaxQuestions }

InitQuiz ==
    /\ \E li \in BOOLEAN : user = li /\ tokenCookie = li
    /\ SessionFields({"all"}, {Null}, 0)
    /\ AnalyticsFields
    /\ AuthFields
    /\ \E correct \in Quizzes : quizPage = QuizSetup(correct)
    /\ lessonPage = NotOpen

QuizFrame ==
    UNCHANGED << user, tokenCookie, sessionVars, analyticsVars, authVars,
                 lessonPage >>

\* An option button (disabled while the result is shown) is clicked.
SelectOption ==
    /\ questionShown(quizPage)
    /\ ~quizPage.showResult
    /\ \E o \in Options :
          LET c == currentQuestion(quizPage)
          IN  quizPage' =
                [selectOption(quizPage, o) EXCEPT
                    !.firstPick = IF @[c] = NoAnswer
                                  THEN [@ EXCEPT ![c] = o] ELSE @]
    /\ QuizFrame

\* "Next question" / "See results" (shown with the result of the current
\* question, hidden while submitting) is clicked.
NextQuestion ==
    /\ questionShown(quizPage)
    /\ quizPage.showResult
    /\ ~quizPage.submitting
    /\ LET n == nextQuestion(quizPage)
       IN  quizPage' =
             [n EXCEPT !.rounds = IF n.currentIndex = 0 /\ ~n.showResult
                                  THEN @ + 1 ELSE @]
    /\ QuizFrame

\* The submit POST resolves with the result of the backend.
SubmitOk ==
    /\ Len(quizPage.inSubmit) > 0
    /\ \E s \in 0 .. Len(quizPage.questions) :
          quizPage' =
            [submitQuizOk(quizPage, Result(s, Len(quizPage.questions)))
                EXCEPT !.submitOutcome = "ok"]
    /\ QuizFrame

\* The submit POST rejects.
SubmitFail ==
    /\ Len(quizPage.inSubmit) > 0
    /\ quizPage' = [submitQuizFail(quizPage) EXCEPT !.submitOutcome = "failed"]
    /\ QuizFrame

\* "Try again" on the score screen is clicked.
TryAgain ==
    /\ scoreScreen(quizPage)
    /\ quizPage' = [tryAgain(quizPage) EXCEPT
                       !.firstPick = NoAnswers(quizPage.questions),
                       !.rounds = 1,
                       !.submitOutcome = "none"]
    /\ QuizFrame

NextQuiz ==
    \/ SelectOption
    \/ NextQuestion
    \/ SubmitOk
    \/ SubmitFail
    \/ TryAgain

SpecQuiz == InitQuiz /\ [][NextQuiz]_vars

----------------------------------------------------------------------------
(* The lesson page, pages/lesson/[slug].vue.                               *)

\* The refs of the page after setup and onMounted.  hasLesson: the lesson
\* was fetched; hasCategory: it names a category; listPc: the request of
\* fetchCategoryLessons is "none" (not issued), "sent", "answered" (the
\* backend has computed the response listReply) or "done"; inComplete: the
\* completion POSTs in flight; serverCompleted: the backend has the
\* lesson as completed by this user.
\* History, written by the actions only: issued counts the completion
\* POSTs sent, succeeded those that have resolved.
LessonSetup(has, cat, done) ==
    [ open |-> TRUE, hasLesson |-> has, hasCategory |-> cat,
      isCompleted |-> FALSE, completing |-> FALSE,
      completionSuccess |-> FALSE,
      listPc |-> IF has /\ cat THEN "sent" ELSE "none",
      listReply |-> "none",
      inComplete |-> 0,
      serverCompleted |-> done,
      issued |-> 0, succeeded |-> 0 ]

\* The backend computes the response of GET /lessons/by-category: the
\* lesson as the backend has it now, or a list without the lesson.
listReplyOf(l) ==
    { IF l.serverCompleted THEN "completed" ELSE "open", "absent" }

\* fetchCategoryLessons after the GET has resolved with reply r.
fetchCategoryLessonsOk(l, r) ==
    LET a == [l EXCEPT !.listPc = "done"]
    IN  IF r = "absent" THEN a
        ELSE [a EXCEPT !.isCompleted = (r = "completed"),
                       !.completionSuccess = IF r = "completed" THEN TRUE
                                             ELSE @]

\* fetchCategoryLessons after the GET has rejected.
fetchCategoryLessonsFail(l) == [l EXCEPT !.listPc = "done"]

\* Faulty variant: the completing flag is not consulted.
markCompleteCallUnguarded(l) ==
    IF ~l.hasLesson \/ l.isCompleted THEN l
    ELSE [l EXCEPT !.completing = TRUE, !.inComplete = @ + 1]

\* markComplete up to the await of the POST.
markCompleteCall(l) ==
    IF ~l.hasLesson \/ l.completing \/ l.isCompleted THEN l
    ELSE [l EXCEPT !.completing = TRUE, !.inComplete = @ + 1]

\* markComplete after the POST has resolved: try, finally.
markCompleteOk(l) ==
    [l EXCEPT !.inComplete = @ - 1,
              !.isCompleted = TRUE,
              !.completionSuccess = TRUE,
              !.completing = FALSE]

\* markComplete after the POST has rejected: catch, finally.
markCompleteFail(l) ==
    [l EXCEPT !.inComplete = @ - 1, !.completing = FALSE]

\* The template renders the "Mark as complete" button.
buttonShown(l, loggedIn) ==
    l.open /\ l.hasLesson /\ ~l.completionSuccess /\ loggedIn

InitLesson ==
    /\ \E li \in BOOLEAN : user = li /\ tokenCookie = li
    /\ SessionFields({"all"}, {Null}, 0)
    /\ AnalyticsFields
    /\ AuthFields
    /\ quizPage = NotOpen
    /\ \E has, cat, done \in BOOLEAN :
          /\ done => user
          /\ lessonPage = LessonSetup(has, cat, done)

LessonFrame ==
    UNCHANGED << user, tokenCookie, sessionVars, analyticsVars, authVars,
                 quizPage >>

\* The button is clicked; the guard of markComplete decides.
MarkComplete ==
    /\ buttonShown(lessonPage, user)
    /\ lessonPage.inComplete < MaxInFlight
    /\ lessonPage.issued < MaxPosts
    /\ LET l == markCompleteCall(lessonPage)
       IN  lessonPage' =
             [l EXCEPT !.issued = @ + l.inComplete - lessonPage.inComplete]
    /\ LessonFrame

\* The completion POST resolves: the backend has recorded the completion.
CompleteOk ==
    /\ lessonPage.inComplete > 0
    /\ lessonPage' = [markCompleteOk(lessonPage) EXCEPT
                         !.serverCompleted = TRUE,
                         !.succeeded = @ + 1]
    /\ LessonFrame

\* The completion POST rejects; the backend may have recorded it.
CompleteFail ==
    /\ lessonPage.inComplete > 0
    /\ \E done \in {lessonPage.serverCompleted, TRUE} :
          lessonPage' = [markCompleteFail(lessonPage) EXCEPT
                            !.serverCompleted = done]
    /\ LessonFrame

\* The backend answers the GET of fetchCategoryLessons.
ListAnswered ==
    /\ lessonPage.open /\ lessonPage.listPc = "sent"
    /\ \E r \in listReplyOf(lessonPage) :
          lessonPage' = [lessonPage EXCEPT !.listPc = "answered",
                                           !.listReply = r]
    /\ LessonFrame

\* The response of the GET arrives.
ListOk ==
    /\ lessonPage.open /\ lessonPage.listPc = "answered"
    /\ lessonPage' = fetchCategoryLessonsOk(lessonPage, lessonPage.listReply)
    /\ LessonFrame

\* The GET rejects.
ListFail ==
    /\ lessonPage.open /\ lessonPage.listPc \in {"sent", "answered"}
    /\ lessonPage' = fetchCategoryLessonsFail(lessonPage)
    /\ LessonFrame

NextLesson ==
    \/ MarkComplete
    \/ CompleteOk
    \/ CompleteFail
    \/ ListAnswered
    \/ ListOk
    \/ ListFail

SpecLesson == InitLesson /\ [][NextLesson]_vars

----------------------------------------------------------------------------
(* The state after a step, as a record. *)

StateNext ==
    [ user |-> user', tokenCookie |-> tokenCookie', mode |-> mode',
      cards |-> cards', fetchPending |-> fetchPending',
      cardIndex |-> cardIndex',
      cardsReviewedInBatch |-> cardsReviewedInBatch',
      cardsReviewedInSession |-> cardsReviewedInSession',
      currentBatchSize |-> currentBatchSize',
      sessionFinished |-> sessionFinished',
      sessionEndEmitted |-> sessionEndEmitted',
      sessionEndCount |-> sessionEndCount',
      revealed |-> revealed', buttonsEnabled |-> buttonsEnabled',
      buttonsTimer |-> buttonsTimer', leakedTimers |-> leakedTimers',
      sinceReveal |-> sinceReveal', isSubmitting |-> isSubmitting',
      inPost |-> inPost', inRefresh |-> inRefresh', inLogout |-> inLogout',
      page |-> page', listArrived |-> listArrived',
      unauthorized |-> unauthorized', reviewCap |-> reviewCap',
      sessionEndReason |-> sessionEndReason', postStale |-> postStale' ]

\* recordResponse calls that have not returned yet.
PendingCalls == inPost + inRefresh + inLogout

\* A step in which the GET /flashcards in flight settles with a list.
ListArrives == fetchPending /\ ~fetchPending' /\ cards' # Null

\* The batch size the spec gives for a list of n cards.
BatchSizeFor(m, n) == IF m = "due" THEN n ELSE Min(BATCH_SIZE, n)

----------------------------------------------------------------------------
(* Claims *)

\* C1: while a grade submission is in flight (isSubmitting), a further
\* recordResponse call changes nothing and issues no review POST, so at
\* most one review POST is outstanding; isSubmitting is true exactly while
\* a call has not returned, so it is false again once the call's requests
\* have settled.
C1_SingleSubmission ==
    /\ [](inPost <= 1 /\ (isSubmitting <=> PendingCalls > 0))
    /\ [][isSubmitting => inPost' <= inPost]_vars
    /\ [][isSubmitting /\ RecordResponse => UNCHANGED vars]_vars

\* A submission is in flight and a card is showing, so that a further call
\* is stopped by the in-flight flag alone.
C1_Witness == isSubmitting /\ inPost = 1 /\ card(State) # NoCard

\* C2: exactly one session_end event is passed to track, whatever
\* combination of completion, finishSession, beforeunload and unmount
\* occurs: never two, and one by the time the component has unmounted.
C2_OneSessionEnd ==
    /\ sessionEndCount <= 1
    /\ sessionEndEmitted <=> sessionEndCount = 1
    /\ page = "gone" => sessionEndCount = 1

\* The session was finished after some reviews and the page has unmounted.
C2_Witness ==
    page = "gone" /\ sessionFinished /\ cardsReviewedInSession > 0
    /\ sessionEndCount = 1

\* C3: cardsReviewedInBatch <= currentBatchSize in every reachable state.
C3_BatchWithinSize == cardsReviewedInBatch <= currentBatchSize

C5_BatchSizeOnArrival ==
    [][ListArrives /\ page' # "gone" =>
         IF ~listArrived
         THEN currentBatchSize' = BatchSizeFor(mode', cards')
         ELSE currentBatchSize' = currentBatchSize]_vars

\* A review POST resolves and the review is counted.
SubmissionSucceeds ==
    inPost' = inPost - 1 /\ cardsReviewedInSession' = cardsReviewedInSession + 1

\* C6: a logged-in session in mode "new" with at least 10 new cards
\* requests at most 10 cards, and sessionFinished becomes true at the 10th
\* successful grade submission of the batch, not at any of the first 9.
C6_TenCardBatch ==
    /\ [](user /\ mode = "new" => cardsLength(State) <= BATCH_SIZE)
    /\ [][SubmissionSucceeds /\ user =>
            /\ cardsReviewedInBatch' = BATCH_SIZE => sessionFinished'
            /\ cardsReviewedInBatch' < BATCH_SIZE =>
                 sessionFinished' = sessionFinished]_vars

\* C6 as amended: the batch, not the request, is limited to 10 cards.
C6_TenCardBatchOfLongerList ==
    /\ [](user => /\ currentBatchSize = BATCH_SIZE
                  /\ cardsReviewedInBatch <= BATCH_SIZE)
    /\ [][SubmissionSucceeds /\ user =>
            /\ cardsReviewedInBatch' = BATCH_SIZE => sessionFinished'
            /\ cardsReviewedInBatch' < BATCH_SIZE =>
                 sessionFinished' = sessionFinished]_vars

\* Ten submissions of the first batch have succeeded.
C6_Witness ==
    user /\ sessionFinished /\ cardsReviewedInBatch = BATCH_SIZE
    /\ cardsReviewedInSession = BATCH_SIZE /\ cards > BATCH_SIZE

\* C7: after a review POST has failed with 401 the token cookie and the
\* user are null, and the session issues no further review POST.
C7_NoPostAfter401 ==
    /\ [](unauthorized => ~user /\ ~tokenCookie)
    /\ [][unauthorized => inPost' <= inPost]_vars

C9_FlipDebounce ==
    /\ [](buttonsEnabled => revealed /\ sinceReveal >= ButtonDelayMs)
    /\ [][revealed' # revealed \/ Tick \/ TimerFire]_vars
    /\ [][revealed /\ ~revealed' =>
            ~buttonsEnabled' /\ buttonsTimer' = TimerNull
            /\ leakedTimers' = << >>]_vars

\* The buttons are enabled 400 ms after a reveal.
C9_Witness == revealed /\ buttonsEnabled /\ sinceReveal = ButtonDelayMs

\* The batch counter reaches the batch size in a step that counts a review.
BatchExhausted ==
    /\ cardsReviewedInBatch' = cardsReviewedInBatch + 1
    /\ cardsReviewedInBatch' >= currentBatchSize'

\* The card that was showing is replaced by none (the list ran out).
CardRanOut ==
    /\ card(State) # NoCard
    /\ card([StateNext EXCEPT !.sessionFinished = FALSE]) = NoCard

\* C10: sessionFinished becomes true only by exhausting the batch or by an
\* explicit finishSession call, and never while isSubmitting is true.
C10_FinishedNotInFlight ==
    [][~sessionFinished /\ sessionFinished' =>
         /\ BatchExhausted \/ FinishSession
         /\ ~isSubmitting']_vars

\* C10 as amended: sessionFinished becomes true only by exhausting the
\* batch, by the current card running out or by an explicit finishSession
\* call (isSubmitting may be true at that moment).
C10_FinishedCauses ==
    [][~sessionFinished /\ sessionFinished' =>
         BatchExhausted \/ CardRanOut \/ FinishSession]_vars

\* The session has finished while a submission was waiting for its refetch.
C10_Witness == sessionFinished /\ isSubmitting /\ inRefresh = 1

\* The events of the flush POSTs in flight.
InFlight == UNION { Elems(flights[i]) : i \in 1 .. Len(flights) }

\* A flush POST rejects and its batch is b.
FlushFails(b) ==
    \E i \in 1 .. Len(flights) :
        /\ flights[i] = b
        /\ flights' = RemoveAt(flights, i)
        /\ delivered' = delivered

\* C11: when the POST of a flush fails, the events of its batch are back
\* in the buffer, in their order, ahead of everything the buffer held;
\* every event passed to track is in the buffer, in a POST in flight,
\* in a POST that succeeded or was handed to sendBeacon.
C11_FailedFlushRequeued ==
    /\ [][\A b \in Elems(flights) :
            FlushFails(b) =>
                /\ Len(buffer') = Len(b) + Len(buffer)
                /\ SubSeq(buffer', 1, Len(b)) = b
                /\ SubSeq(buffer', Len(b) + 1, Len(buffer')) = buffer]_vars
    /\ [](\A e \in 1 .. tracked :
            e \in Elems(buffer) \cup InFlight \cup delivered \cup beaconed)

\* Two flushes have failed; event 3 was tracked while the POST of event 2
\* was in flight.
C11_Witness == buffer = << 2, 1, 3 >> /\ flights = << >>

\* C12: once the plugin has settled, the token cookie is non-null exactly
\* when the user is non-null, in every state between two turns.
C12_TokenIffUser == rehydratePc = "done" => (tokenCookie <=> user)

\* logout has just settled.
LogoutSettles == logoutPc = "post" /\ logoutPc' = "idle"

\* C13: logout clears the token cookie and the user before it awaits
\* POST /auth/logout, and returns normally whether that call succeeds or
\* fails, without writing either of them again.
C13_LogoutNeverThrows ==
    /\ [][logoutPc = "idle" /\ logoutPc' = "post" =>
            ~tokenCookie' /\ ~user']_vars
    /\ [][LogoutSettles =>
            /\ lastOutcome'.call = "logout"
            /\ lastOutcome'.result = "returned"
            /\ tokenCookie' = tokenCookie /\ user' = user]_vars

\* logout has returned after its POST had failed.
C13_Witness ==
    lastOutcome = Outcome("logout", "failed", "returned")
    /\ ~tokenCookie /\ ~user /\ logoutPc = "idle"

\* signup has just returned normally.
SignupReturns == signupPc = "me" /\ signupPc' = "idle"
                 /\ lastOutcome'.result = "returned"

C15_Rehydration ==
    /\ [][rehydratePc' = "fetching" /\ rehydratePc # "fetching" =>
            tokenCookie /\ ~user]_vars
    /\ [][rehydratePc = "fetching" /\ lastOutcome'.response = "failed"
            /\ lastOutcome'.call = "rehydrate" =>
            ~tokenCookie' /\ ~user']_vars
    /\ [](authReady <=> rehydratePc = "done")
    /\ [][authReady => authReady']_vars

\* The fetch of the plugin has failed.
C15_Witness ==
    authReady /\ lastOutcome = Outcome("rehydrate", "failed", "returned")
    /\ ~tokenCookie /\ ~user

\* A click or a rating key has started a review POST.
RatedFromUI == (KeyRate \/ ClickRate) /\ inPost' > inPost

CountersUnchanged ==
    /\ cardsReviewedInSession' = cardsReviewedInSession
    /\ cardsReviewedInBatch' = cardsReviewedInBatch

\* C17: a submission whose POST succeeds adds one to both counters and
\* refetches; the call itself and a failed POST leave the counters alone
\* and start no refresh; after a failure other than 401 the session goes
\* on with the same card and the same user.
C17_CountOnSuccessOnly ==
    /\ [][PostOk =>
            /\ cardsReviewedInSession' = cardsReviewedInSession + 1
            /\ cardsReviewedInBatch' = cardsReviewedInBatch + 1
            /\ fetchPending' /\ inRefresh' = inRefresh + 1]_vars
    /\ [][RecordResponse \/ Post401 \/ PostError =>
            CountersUnchanged /\ inRefresh' = inRefresh]_vars
    /\ [][PostError =>
            /\ card(StateNext) = card(State)
            /\ sessionFinished' = sessionFinished
            /\ user' = user /\ tokenCookie' = tokenCookie
            /\ page' = page /\ ~isSubmitting']_vars

\* A submission has failed with 401 and nothing was counted.
C17_Witness ==
    unauthorized /\ inLogout = 1 /\ cardsReviewedInSession = 0
    /\ cardsReviewedInBatch = 0 /\ ~fetchPending

\* nextCard has moved an anonymous user past the last card of the list.
ReachesEnd == NextCard /\ cardIndex' >= cardsLength(StateNext)

C19_KeepGoingFrame ==
    [][KeepGoing =>
         /\ cardsReviewedInBatch' = 0 /\ ~sessionFinished'
         /\ mode' = mode /\ cardIndex' = cardIndex
         /\ cardsReviewedInSession' = cardsReviewedInSession
         /\ currentBatchSize' <= remainingCards(State)
         /\ currentBatchSize' <= remainingCards(StateNext)]_vars

\* C20: a review POST issued before a mode switch or before a batch was
\* restarted, and resolving afterwards, changes neither the counters nor
\* sessionFinished of the batch that has begun in the meantime.
C20_StaleCompletionIgnored ==
    [][PostOk /\ postStale =>
         /\ cardsReviewedInBatch' = cardsReviewedInBatch
         /\ cardsReviewedInSession' = cardsReviewedInSession
         /\ sessionFinished' = sessionFinished]_vars

\* C21: a change of mode sets cardsReviewedInBatch, currentBatchSize and
\* cardIndex to 0, sessionFinished to false and empties the card list,
\* and leaves cardsReviewedInSession and the session_end flag alone; the
\* first list to arrive afterwards sets the batch size by the new mode.
C21_ModeChangeFrame ==
    /\ [][ModeChange =>
            /\ cardsReviewedInBatch' = 0 /\ currentBatchSize' = 0
            /\ cardIndex' = 0 /\ cards' = 0
            /\ ~sessionFinished'
            /\ cardsReviewedInSession' = cardsReviewedInSession
            /\ sessionEndEmitted' = sessionEndEmitted]_vars
    /\ [][ListArrives /\ ~listArrived /\ page' # "gone" =>
            currentBatchSize' = BatchSizeFor(mode', cards')]_vars

\* C22: buttonsEnabled implies revealed, and that the answer has been
\* shown for 400 ms, whatever the sequence of flips, next cards, ratings,
\* refreshes and timer expirations, for anonymous and logged-in users.
C22_EnabledOnlyRevealed ==
    buttonsEnabled => (revealed /\ sinceReveal >= ButtonDelayMs)

\* The buffer holds its events in the order of the track calls.
InTrackOrder(buf) ==
    \A i, j \in 1 .. Len(buf) : i < j => buf[i] < buf[j]

\* C23: the buffer keeps the events in the order in which track was
\* called, also when flushes overlap and fail; no event is in the buffer
\* twice, none is missing.
C23_BufferInTrackOrder ==
    /\ InTrackOrder(buffer)
    /\ \A e \in 1 .. tracked :
          e \in Elems(buffer) \cup InFlight \cup delivered \cup beaconed

\* C24: once session_end has been tracked, no card_review event is
\* tracked (no review POST is issued) and cardsReviewedInSession does not
\* increase.
C24_SessionEndCloses ==
    [][sessionEndEmitted =>
         /\ inPost' <= inPost
         /\ cardsReviewedInSession' = cardsReviewedInSession]_vars

\* C26: a change of mode while a card is showing tracks no session_end
\* event, does not set sessionFinished and does not navigate away.
C26_ModeSwitchKeepsSession ==
    [][ModeChange /\ card(State) # NoCard =>
         /\ sessionEndCount' = sessionEndCount
         /\ sessionEndEmitted' = sessionEndEmitted
         /\ ~sessionFinished'
         /\ page' = page]_vars

\* C25: the session_end event tracked at unmount or at unload is handed to
\* the backend: once session_end has been tracked at unload, and once the
\* page has unmounted (nothing flushes its buffer from then on), a flush
\* or a flushBeacon has taken the event from the buffer.
C25_SessionEndHandedOver ==
    /\ [][PageBeforeUnload => SessionEndId \in flushed']_vars
    /\ [](page = "gone" => SessionEndId \in flushed)

\* nextQuestion is called at the last question of the round.
AtLastQuestion ==
    /\ NextQuestion
    /\ quizPage.currentIndex >= Len(activeQuestions(quizPage)) - 1

\* A submit POST is issued in the step.
SubmitIssued ==
    /\ Len(quizPage'.inSubmit) = Len(quizPage.inSubmit) + 1
    /\ quizPage'.submitting

\* A submit POST settles in the step.
SubmitSettles == Len(quizPage'.inSubmit) < Len(quizPage.inSubmit)

\* The questions whose first selection differs from correct_index.
FirstPassMissed == missed(quizPage, quizPage.firstPick)

\* C27: at the last question of the first pass nextQuestion starts a
\* retry round with exactly the questions answered wrongly in the first
\* pass, in quiz order, if there is one, and submits otherwise; at the
\* last question of the retry round it submits; an attempt has at most
\* two rounds, and every nextQuestion call advances within the round,
\* begins the second round or submits.
C27_RetryOnce ==
    /\ [][AtLastQuestion /\ ~quizPage.inRetryRound =>
            IF Len(FirstPassMissed) > 0
            THEN /\ quizPage'.inRetryRound
                 /\ quizPage'.retryQuestions = FirstPassMissed
                 /\ quizPage'.currentIndex = 0
                 /\ ~quizPage'.showResult
                 /\ quizPage'.inSubmit = quizPage.inSubmit
            ELSE SubmitIssued /\ ~quizPage'.inRetryRound]_vars
    /\ [][AtLastQuestion /\ quizPage.inRetryRound => SubmitIssued]_vars
    /\ [](quizPage.rounds <= 2)
    /\ [](quizPage.inRetryRound <=> quizPage.rounds = 2)
    /\ [][NextQuestion =>
            \/ SubmitIssued
            \/ quizPage'.rounds = quizPage.rounds + 1
            \/ /\ quizPage'.rounds = quizPage.rounds
               /\ quizPage'.currentIndex = quizPage.currentIndex + 1]_vars
    /\ [][SubmitSettles => quizPage'.quizComplete]_vars

\* An attempt has ended after a retry round of the second question alone.
C27_Witness ==
    /\ quizPage.quizComplete /\ quizPage.rounds = 2
    /\ Len(quizPage.questions) = 2 /\ quizPage.retryQuestions = << 2 >>

\* C28: the answers in the body of the submit POST, and those the local
\* fallback scores, are the options selected in the first pass, whatever
\* is selected in the retry round.
C28_FirstPassSubmitted ==
    /\ [][SubmitIssued =>
            quizPage'.inSubmit[Len(quizPage'.inSubmit)] = quizPage.firstPick]_vars
    /\ [][SubmitFail =>
            quizPage'.submitResult.score =
                localScore(quizPage, quizPage.firstPick)]_vars

\* A submission is in flight after a retry round in which another option
\* was selected than in the first pass.
C28_Witness ==
    /\ Len(quizPage.inSubmit) = 1 /\ quizPage.inRetryRound
    /\ quizPage.inSubmit[1] = quizPage.firstPick
    /\ quizPage.answers # quizPage.firstPick

\* C29: when the submit POST has settled, submitting is false,
\* quizComplete is true and the result is non-null; after a failure the
\* result has the number of questions as total and the number of correct
\* first-pass answers as score; tryAgain restores the initial state.
C29_SubmitAlwaysCompletes ==
    /\ [][SubmitSettles =>
            /\ ~quizPage'.submitting /\ quizPage'.quizComplete
            /\ quizPage'.submitResult.present]_vars
    /\ [](quizPage.quizComplete =>
            quizPage.submitResult.present /\ ~quizPage.submitting)
    /\ [][SubmitFail =>
            quizPage'.submitResult =
                Result(localScore(quizPage, quizPage.firstPick),
                       Len(quizPage.questions))]_vars
    /\ [][TryAgain => quizPage' = QuizSetup(quizPage.questions)]_vars

\* The submission has failed after a retry round; one of two first-pass
\* answers was correct.
C29_Witness ==
    /\ quizPage.submitOutcome = "failed" /\ quizPage.quizComplete
    /\ quizPage.inRetryRound /\ quizPage.submitResult = Result(1, 2)

\* A completion POST is issued in the step.
CompleteIssued == lessonPage'.inComplete > lessonPage.inComplete

\* C30: markComplete issues a completion POST only if none is in flight,
\* isCompleted is false and none has succeeded; completing is true
\* exactly while a POST is in flight; isCompleted becomes true only when
\* a POST resolves or the backend's list reports the lesson completed; a
\* failed POST leaves isCompleted as it is and completing false, and if
\* isCompleted is false the button is there and markComplete sends again.
C30_MarkCompleteGuarded ==
    /\ [][CompleteIssued =>
            /\ ~lessonPage.completing /\ ~lessonPage.isCompleted
            /\ lessonPage.inComplete = 0 /\ lessonPage.succeeded = 0]_vars
    /\ [](/\ lessonPage.inComplete <= 1
          /\ lessonPage.completing <=> lessonPage.inComplete = 1)
    /\ [][~lessonPage.isCompleted /\ lessonPage'.isCompleted =>
            CompleteOk \/ (ListOk /\ lessonPage.listReply = "completed")]_vars
    /\ [][CompleteFail =>
            /\ lessonPage'.isCompleted = lessonPage.isCompleted
            /\ ~lessonPage'.completing]_vars
    /\ [][CompleteFail /\ ~lessonPage.isCompleted =>
            /\ buttonShown(lessonPage', user')
            /\ markCompleteCall(lessonPage').inComplete = 1]_vars

\* A completion POST has failed and the retry has succeeded.
C30_Witness ==
    /\ lessonPage.issued = 2 /\ lessonPage.succeeded = 1
    /\ lessonPage.isCompleted /\ ~lessonPage.completing

====
